---- MODULE Spec2Model ----
(***************************************************************************)
(* Model of the thread-pointer-base offset discovery of the profiling      *)
(* agent: tracer/tpbase.go (loadKernelCode, loadTPBaseOffset).             *)
(*                                                                         *)
(* One caller thread runs loadTPBaseOffset; the kernel runs the attached   *)
(* tracepoint program whenever a bpf() syscall is entered, by this thread  *)
(* or by anything else on the machine.                                     *)
(***************************************************************************)
EXTENDS Integers, Sequences, FiniteSets, TLC

\* Number of analyzers tpbase.GetAnalyzers() returns, in priority order.
NumAnalyzers == 3
\* The ghost count of probe firings saturates here.
MaxFirings == 2

Analyzers == 1 .. NumAnalyzers

\* Kernel functions: analyzer i is bound to the function at address i.
Addresses == 1 .. NumAnalyzers

\* Immediates a kernel function's code can embed (candidate offsets).
Offsets == {0, 50, 499, 500, 3344, 20000, 20001}

\* Opcode word the analyzers' pattern expects in front of the immediate.
MovOp == 1

\* A code dump is support.CodedumpBytes bytes, modelled as two 32-bit words:
\* <<opcode word, immediate word>>.
ZeroDump == <<0, 0>>
KernelCode == {ZeroDump} \cup {<<MovOp, v>> : v \in Offsets}

\* What an earlier attempt may have left in the output slot.
StaleSlots == {ZeroDump, <<MovOp, 3344>>}

\* Kernel code used where extraction calls follow one another.
SerialCode == {<<MovOp, 3344>>, <<MovOp, 500>>}

\* Words that may lie behind a 4-byte Go variable in the process's memory.
HeapWords == {0, 3344}

\* sym.Address of the function analyzer an is bound to.
SymAddress(an) == an

\* kernelSymbols.LookupSymbol(analyzer.FunctionName): found or not.
LookupSymbol(symbols, an) == an \in symbols

\* analyzer.Analyze(code): the decoded offset, or a decode error when the
\* expected instruction pattern is absent.
Analyze(an, code) ==
    IF code[1] = MovOp
        THEN [offset |-> code[2], err |-> "nil"]
        ELSE [offset |-> 0, err |-> "decode"]

\* NotSane with the lower boundary off by one.
NotSaneOffByOne(v) == v <= 500 \/ v > 20000

\* tpbase.go:126, the sanity check's rejection condition.
NotSane(v) == v < 500 \/ v > 20000

VARIABLES
    pc,              \* position of the caller thread
    kernelSymbols,   \* the symbol table: analyzers whose function exists
    kmem,            \* kernel memory: the code at each function's address
    codedump_addr,   \* the single slot of the input map
    codedump_code,   \* the single slot of the output map
    idx,             \* loop position in GetAnalyzers()
    tpbaseOffset,    \* local of loadTPBaseOffset
    code,            \* local of loadTPBaseOffset
    result,          \* what loadTPBaseOffset returned
    functionAddress, \* argument of loadKernelCode
    codeDump,        \* local buffer of loadKernelCode
    lkcRet,          \* what loadKernelCode returns
    rlimitRaised,    \* RLIMIT_MEMLOCK is raised
    progLoaded,      \* the tracepoint program is loaded
    probeAttached,   \* the program is attached to sys_enter_bpf
    defers,          \* loadKernelCode's stack of deferred calls
    lookups,         \* ghost: analyzers looked up in this attempt
    extractions,     \* ghost: addresses loadKernelCode was called with
    decodes,         \* ghost: Analyze calls of this attempt
    firings,         \* ghost: probe firings since this call's address write
    lastDump,        \* ghost: the previous successful extraction, while the
                     \* kernel memory it read is unchanged
    trace,           \* ghost: the kernel interactions of this extraction call
    peer,            \* a second caller of loadKernelCode on the same maps
    loader,          \* a LoaderInfo: what GetELF and LookupSymbol give
    ranges           \* what GetSymbolAsRanges returned

vars == <<pc, kernelSymbols, kmem, codedump_addr, codedump_code, idx,
          tpbaseOffset, code, result, functionAddress, codeDump, lkcRet,
          rlimitRaised, progLoaded, probeAttached, defers, lookups,
          extractions, decodes, firings, lastDump, trace, peer, loader,
          ranges>>

\* A nil byte slice.
Nil == <<>>

NoResult == [offset |-> 0, err |-> "none", dump |-> Nil]
NoRet == [code |-> Nil, err |-> "none"]
NoDump == [addr |-> 0, code |-> Nil]

\* The second caller before it calls loadKernelCode.
NoPeer == [pc |-> "idle", addr |-> 0, attached |-> FALSE, codeDump |-> Nil,
           ret |-> Nil, began |-> "never", ended |-> "never"]

\* No LoaderInfo in use, and no call of GetSymbolAsRanges.
NoLoader == [elfErr |-> FALSE, symErr |-> FALSE, address |-> <<>>, size |-> <<>>]
NoRanges == [ranges |-> <<>>, err |-> "none"]

Init ==
    /\ pc = "idle"
    /\ kernelSymbols = {}
    /\ kmem \in [Addresses -> KernelCode]
    /\ codedump_addr = 0
    /\ codedump_code \in StaleSlots
    /\ idx = 1
    /\ tpbaseOffset = 0
    /\ code = Nil
    /\ result = NoResult
    /\ functionAddress = 0
    /\ codeDump = Nil
    /\ lkcRet = NoRet
    /\ rlimitRaised = FALSE
    /\ progLoaded = FALSE
    /\ probeAttached = FALSE
    /\ defers = <<>>
    /\ lookups = <<>>
    /\ extractions = <<>>
    /\ decodes = <<>>
    /\ firings = 0
    /\ lastDump = NoDump
    /\ trace = <<>>
    /\ peer = NoPeer
    /\ loader = NoLoader
    /\ ranges = NoRanges

sideVars == <<peer, loader, ranges>>
orchVars == <<kernelSymbols, idx, tpbaseOffset, code, result, lookups, decodes>>
resVars == <<rlimitRaised, progLoaded, probeAttached, defers>>
mapVars == <<codedump_addr, codedump_code>>

----
\* The caller and the kernel between discovery attempts.

\* The caller invokes loadTPBaseOffset(coll, maps, kernelSymbols).
StartAttempt ==
    /\ pc = "idle"
    /\ \E symbols \in SUBSET Analyzers : kernelSymbols' = symbols
    /\ idx' = 1
    /\ tpbaseOffset' = 0
    /\ pc' = "loop"
    /\ UNCHANGED <<kmem, sideVars, trace, mapVars, resVars, code, result, lookups, decodes,
                   functionAddress, codeDump, lkcRet, extractions, firings,
                   lastDump>>

\* The code of a kernel function changes while no extraction is running.
KernelChange ==
    /\ pc = "idle"
    /\ \E a \in Addresses, d \in SerialCode :
          /\ d # kmem[a]
          /\ kmem' = [kmem EXCEPT ![a] = d]
          /\ lastDump' = IF lastDump.addr = a THEN NoDump ELSE lastDump
    /\ UNCHANGED <<pc, sideVars, trace, orchVars, mapVars, resVars, functionAddress, codeDump,
                   lkcRet, extractions, firings>>

----
\* The tracepoint program and the kernel's syscall entry.

\* Some caller's program is attached to sys_enter_bpf.
AnyProbe == probeAttached \/ peer.attached

\* What tracepoint__sys_enter_bpf leaves in the output slot: the bytes at
\* the address held by the input slot.
ProbeOutput == kmem[codedump_addr]

\* The output slot after the entry of a bpf() syscall issued by the caller:
\* the tracepoint fires before the syscall's own body runs.
SysEnterBpf == IF AnyProbe THEN ProbeOutput ELSE codedump_code

Bump(n) == IF n < MaxFirings THEN n + 1 ELSE n

\* The ghost count after a bpf() syscall of the caller.
AfterSyscall == IF AnyProbe THEN Bump(firings) ELSE firings

\* A bpf() syscall of some other thread or process fires the probe.
ProbeFire ==
    /\ AnyProbe
    /\ codedump_code' = ProbeOutput
    /\ firings' = Bump(firings)
    /\ UNCHANGED <<pc, sideVars, trace, kmem, codedump_addr, orchVars, resVars, functionAddress,
                   codeDump, lkcRet, extractions, lastDump>>

----
\* loadKernelCode (tpbase.go:44-93), one action per kernel interaction.

\* ReturnTo with the releases paired by hand on the success path only: an
\* early return goes straight back to the caller.
ReturnDirect(stack) == "extracted"

\* A return statement of loadKernelCode: the deferred calls run before the
\* caller continues.
ReturnTo(stack) == IF stack = <<>> THEN "extracted" ELSE "defers"

\* UpdateAddr writing under a key the probe does not read: the call goes on,
\* slot 0 keeps what it held.
UpdateAddrWrongKey ==
    /\ pc = "writeAddr"
    /\ firings' = 0
    /\ trace' = Append(trace, "write")
    /\ pc' = "rlimit"
    /\ codedump_code' = SysEnterBpf
    /\ UNCHANGED <<kmem, sideVars, codedump_addr, orchVars, resVars,
                   functionAddress, codeDump, lkcRet, extractions, lastDump>>

\* UpdateAddr with cebpf.UpdateNoExist semantics taken for success: a slot
\* that already holds an address keeps it.
UpdateAddrOnce ==
    /\ pc = "writeAddr"
    /\ codedump_addr' = IF codedump_addr = 0 THEN functionAddress ELSE codedump_addr
    /\ firings' = 0
    /\ trace' = Append(trace, "write")
    /\ pc' = "rlimit"
    /\ codedump_code' = SysEnterBpf
    /\ UNCHANGED <<kmem, sideVars, orchVars, resVars, functionAddress, codeDump, lkcRet,
                   extractions, lastDump>>

\* tpbase.go:52-56: write the target address into codedump_addr.
UpdateAddr ==
    /\ pc = "writeAddr"
    /\ \/ /\ codedump_addr' = functionAddress
          /\ firings' = 0
          /\ trace' = Append(trace, "write")
          /\ pc' = "rlimit"
          /\ UNCHANGED lkcRet
       \/ /\ lkcRet' = [code |-> Nil, err |-> "write codedump_addr"]
          /\ pc' = ReturnTo(defers)
          /\ UNCHANGED <<codedump_addr, firings, trace>>
    /\ codedump_code' = SysEnterBpf
    /\ UNCHANGED <<kmem, sideVars, orchVars, resVars, functionAddress, codeDump,
                   extractions, lastDump>>

\* tpbase.go:58-62: raise RLIMIT_MEMLOCK and defer its restoration.
MaximizeMemlock ==
    /\ pc = "rlimit"
    /\ \/ /\ rlimitRaised' = TRUE
          /\ defers' = Append(defers, "restoreRlimit")
          /\ trace' = Append(trace, "raise")
          /\ pc' = "newProgram"
          /\ UNCHANGED lkcRet
       \/ /\ lkcRet' = [code |-> Nil, err |-> "adjust rlimit"]
          /\ pc' = ReturnTo(defers)
          /\ UNCHANGED <<rlimitRaised, defers, trace>>
    /\ UNCHANGED <<kmem, sideVars, mapVars, orchVars, progLoaded, probeAttached,
                   functionAddress, codeDump, extractions, firings, lastDump>>

\* tpbase.go:67-71: load tracepoint__sys_enter_bpf and defer prog.Close().
NewProgram ==
    /\ pc = "newProgram"
    /\ \/ /\ progLoaded' = TRUE
          /\ defers' = Append(defers, "prog.Close")
          /\ trace' = Append(trace, "load")
          /\ pc' = "tracepoint"
          /\ UNCHANGED lkcRet
       \/ /\ lkcRet' = [code |-> Nil, err |-> "load tracepoint"]
          /\ pc' = ReturnTo(defers)
          /\ UNCHANGED <<progLoaded, defers, trace>>
    /\ codedump_code' = SysEnterBpf
    /\ UNCHANGED <<kmem, sideVars, codedump_addr, orchVars, rlimitRaised, probeAttached,
                   functionAddress, codeDump, extractions, firings, lastDump>>

\* Tracepoint with the defer keyword missing: perfEvent.Close() runs at
\* once, before the output slot is read.
TracepointNoDefer ==
    /\ pc = "tracepoint"
    /\ trace' = trace \o <<"attach", "perfEvent.Close">>
    /\ pc' = "lookupCode"
    /\ UNCHANGED <<kmem, sideVars, mapVars, orchVars, resVars, functionAddress,
                   codeDump, lkcRet, extractions, firings, lastDump>>

\* tpbase.go:73-77: attach the program to syscalls/sys_enter_bpf and defer
\* perfEvent.Close().
Tracepoint ==
    /\ pc = "tracepoint"
    /\ \/ /\ probeAttached' = TRUE
          /\ defers' = Append(defers, "perfEvent.Close")
          /\ trace' = Append(trace, "attach")
          /\ pc' = "lookupCode"
          /\ UNCHANGED lkcRet
       \/ /\ lkcRet' = [code |-> Nil, err |-> "configure tracepoint"]
          /\ pc' = ReturnTo(defers)
          /\ UNCHANGED <<probeAttached, defers, trace>>
    /\ UNCHANGED <<kmem, sideVars, mapVars, orchVars, rlimitRaised, progLoaded,
                   functionAddress, codeDump, extractions, firings, lastDump>>

\* LookupCode reading the slot by a path that enters no bpf() syscall, so
\* that the read itself triggers nothing.
LookupCodeNoTrigger ==
    /\ pc = "lookupCode"
    /\ codeDump' = codedump_code
    /\ trace' = Append(trace, "read")
    /\ pc' = "clearCode"
    /\ UNCHANGED <<kmem, sideVars, mapVars, orchVars, resVars, functionAddress, lkcRet,
                   extractions, firings, lastDump>>

\* tpbase.go:79-83: read the output slot into codeDump. The read is a bpf()
\* syscall, so the attached probe fires at its entry.
LookupCode ==
    /\ pc = "lookupCode"
    /\ codedump_code' = SysEnterBpf
    /\ firings' = AfterSyscall
    /\ trace' = Append(trace, "read")
    /\ \/ /\ codeDump' = codedump_code'
          /\ pc' = "clearCode"
          /\ UNCHANGED lkcRet
       \/ /\ lkcRet' = [code |-> Nil, err |-> "get codedump"]
          /\ pc' = ReturnTo(defers)
          /\ UNCHANGED codeDump
    /\ UNCHANGED <<kmem, sideVars, codedump_addr, orchVars, resVars, functionAddress,
                   extractions, lastDump>>

\* What the kernel copies into the slot from &value0 (tpbase.go:86-87): the
\* four zero bytes of value0, then whatever follows it in memory.
ClearedSlots == {<<0, w>> : w \in HeapWords}

\* ClearCode returning the buffer it has read together with the error of a
\* failed clearing write.
ClearCodePartial ==
    /\ pc = "clearCode"
    /\ firings' = AfterSyscall
    /\ \/ /\ codedump_code' \in ClearedSlots
          /\ lkcRet' = [code |-> codeDump, err |-> "nil"]
          /\ trace' = Append(trace, "clear")
       \/ /\ codedump_code' = SysEnterBpf
          /\ lkcRet' = [code |-> codeDump, err |-> "clear codedump_code"]
          /\ UNCHANGED trace
    /\ pc' = ReturnTo(defers)
    /\ UNCHANGED <<kmem, sideVars, codedump_addr, orchVars, resVars,
                   functionAddress, codeDump, extractions, lastDump>>

\* tpbase.go:85-92: overwrite the output slot from value0 and return codeDump.
\* The write is a bpf() syscall too: the probe fires first, then the body
\* overwrites what it left.
ClearCode ==
    /\ pc = "clearCode"
    /\ firings' = AfterSyscall
    /\ \/ /\ codedump_code' \in ClearedSlots
          /\ lkcRet' = [code |-> codeDump, err |-> "nil"]
          /\ trace' = Append(trace, "clear")
       \/ /\ codedump_code' = SysEnterBpf
          /\ lkcRet' = [code |-> Nil, err |-> "clear codedump_code"]
          /\ UNCHANGED trace
    /\ pc' = ReturnTo(defers)
    /\ UNCHANGED <<kmem, sideVars, codedump_addr, orchVars, resVars, functionAddress,
                   codeDump, extractions, lastDump>>

\* The effect of one deferred call on the resources.
RunDeferred(call) ==
    /\ rlimitRaised' = IF call = "restoreRlimit" THEN FALSE ELSE rlimitRaised
    /\ progLoaded' = IF call = "prog.Close" THEN FALSE ELSE progLoaded
    /\ probeAttached' = IF call = "perfEvent.Close" THEN FALSE ELSE probeAttached

\* Deferred running the calls in the order they were deferred.
DeferredFifo ==
    /\ pc = "defers"
    /\ defers # <<>>
    /\ RunDeferred(defers[1])
    /\ trace' = Append(trace, defers[1])
    /\ defers' = Tail(defers)
    /\ pc' = ReturnTo(defers')
    /\ UNCHANGED <<kmem, sideVars, mapVars, orchVars, functionAddress, codeDump,
                   lkcRet, extractions, firings, lastDump>>

\* tpbase.go:62,71,77: on return the deferred calls run, last deferred first.
Deferred ==
    /\ pc = "defers"
    /\ defers # <<>>
    /\ RunDeferred(defers[Len(defers)])
    /\ trace' = Append(trace, defers[Len(defers)])
    /\ defers' = SubSeq(defers, 1, Len(defers) - 1)
    /\ pc' = ReturnTo(defers')
    /\ UNCHANGED <<kmem, sideVars, mapVars, orchVars, functionAddress, codeDump, lkcRet,
                   extractions, firings, lastDump>>

----
\* loadTPBaseOffset (tpbase.go:98-131).

\* ResolveSymbol that looks the same analyzer up again after an unresolved
\* symbol (stopped after a few rounds to keep the state finite).
ResolveSymbolAgain ==
    /\ pc = "loop"
    /\ idx <= NumAnalyzers
    /\ Len(lookups) <= NumAnalyzers
    /\ lookups' = Append(lookups, idx)
    /\ IF LookupSymbol(kernelSymbols, idx)
         THEN /\ functionAddress' = SymAddress(idx)
              /\ extractions' = Append(extractions, SymAddress(idx))
              /\ pc' = "writeAddr"
         ELSE UNCHANGED <<pc, functionAddress, extractions>>
    /\ UNCHANGED <<kmem, sideVars, trace, mapVars, resVars, kernelSymbols, idx,
                   tpbaseOffset, code, result, decodes, codeDump, lkcRet,
                   firings, lastDump>>

\* ResolveSymbol with an unresolved symbol returned as an error.
ResolveSymbolFatal ==
    /\ pc = "loop"
    /\ idx <= NumAnalyzers
    /\ lookups' = Append(lookups, idx)
    /\ IF LookupSymbol(kernelSymbols, idx)
         THEN /\ functionAddress' = SymAddress(idx)
              /\ extractions' = Append(extractions, SymAddress(idx))
              /\ pc' = "writeAddr"
              /\ UNCHANGED result
         ELSE /\ result' = [offset |-> 0, err |-> "symbol not found", dump |-> Nil]
              /\ pc' = "done"
              /\ UNCHANGED <<functionAddress, extractions>>
    /\ UNCHANGED <<kmem, sideVars, trace, mapVars, resVars, kernelSymbols, idx, tpbaseOffset,
                   code, decodes, codeDump, lkcRet, firings, lastDump>>

\* tpbase.go:101-107: the loop head. An analyzer whose symbol is unresolved
\* is skipped; for the first resolved one loadKernelCode is called.
ResolveSymbol ==
    /\ pc = "loop"
    /\ idx <= NumAnalyzers
    /\ lookups' = Append(lookups, idx)
    /\ IF LookupSymbol(kernelSymbols, idx)
         THEN /\ functionAddress' = SymAddress(idx)
              /\ extractions' = Append(extractions, SymAddress(idx))
              /\ pc' = "writeAddr"
              /\ UNCHANGED idx
         ELSE /\ idx' = idx + 1
              /\ UNCHANGED <<pc, functionAddress, extractions>>
    /\ UNCHANGED <<kmem, sideVars, trace, mapVars, resVars, kernelSymbols, tpbaseOffset, code,
                   result, decodes, codeDump, lkcRet, firings, lastDump>>

\* tpbase.go:101,118: the analyzers are exhausted.
LoopEnd ==
    /\ pc = "loop"
    /\ idx > NumAnalyzers
    /\ pc' = "validate"
    /\ UNCHANGED <<kmem, sideVars, trace, mapVars, resVars, orchVars, functionAddress, codeDump,
                   lkcRet, extractions, firings, lastDump>>

\* Extracted with one retry of a failed extraction.
ExtractedRetry ==
    /\ pc = "extracted"
    /\ IF lkcRet.err # "nil" /\ Len(extractions) < 2
         THEN /\ extractions' = Append(extractions, functionAddress)
              /\ lkcRet' = NoRet
              /\ trace' = <<>>
              /\ pc' = "writeAddr"
              /\ UNCHANGED <<code, lastDump, result>>
         ELSE IF lkcRet.err # "nil"
         THEN /\ result' = [offset |-> 0, err |-> lkcRet.err, dump |-> Nil]
              /\ pc' = "done"
              /\ UNCHANGED <<code, lastDump, extractions, lkcRet, trace>>
         ELSE /\ code' = lkcRet.code
              /\ lastDump' = [addr |-> functionAddress, code |-> lkcRet.code]
              /\ pc' = "analyze"
              /\ UNCHANGED <<result, extractions, lkcRet, trace>>
    /\ UNCHANGED <<kmem, sideVars, mapVars, resVars, kernelSymbols, idx,
                   tpbaseOffset, lookups, decodes, functionAddress, codeDump,
                   firings>>

\* Extracted with an extraction error treated like an unresolved symbol:
\* the loop goes on to the next analyzer.
ExtractedContinue ==
    /\ pc = "extracted"
    /\ IF lkcRet.err # "nil"
         THEN /\ idx' = idx + 1
              /\ pc' = "loop"
              /\ UNCHANGED <<code, lastDump>>
         ELSE /\ code' = lkcRet.code
              /\ lastDump' = [addr |-> functionAddress, code |-> lkcRet.code]
              /\ pc' = "analyze"
              /\ UNCHANGED idx
    /\ UNCHANGED <<kmem, sideVars, trace, mapVars, resVars, kernelSymbols, tpbaseOffset, result,
                   lookups, decodes, functionAddress, codeDump, lkcRet,
                   extractions, firings>>

\* tpbase.go:107-110: loadKernelCode has returned.
Extracted ==
    /\ pc = "extracted"
    /\ IF lkcRet.err # "nil"
         THEN /\ result' = [offset |-> 0, err |-> lkcRet.err, dump |-> Nil]
              /\ pc' = "done"
              /\ UNCHANGED <<code, lastDump>>
         ELSE /\ code' = lkcRet.code
              /\ lastDump' = [addr |-> functionAddress, code |-> lkcRet.code]
              /\ pc' = "analyze"
              /\ UNCHANGED result
    /\ UNCHANGED <<kmem, sideVars, trace, mapVars, resVars, kernelSymbols, idx, tpbaseOffset,
                   lookups, decodes, functionAddress, codeDump, lkcRet,
                   extractions, firings>>

\* AnalyzeCode with a decode error falling back to the next analyzer.
AnalyzeCodeFallback ==
    /\ pc = "analyze"
    /\ LET r == Analyze(idx, code) IN
         /\ decodes' = Append(decodes, [analyzer |-> idx, code |-> code,
                                        offset |-> r.offset, err |-> r.err])
         /\ IF r.err # "nil"
              THEN /\ idx' = idx + 1
                   /\ pc' = "loop"
                   /\ UNCHANGED tpbaseOffset
              ELSE /\ tpbaseOffset' = r.offset
                   /\ pc' = "validate"
                   /\ UNCHANGED idx
    /\ UNCHANGED <<kmem, sideVars, trace, mapVars, resVars, kernelSymbols, code, result, lookups,
                   functionAddress, codeDump, lkcRet, extractions, firings,
                   lastDump>>

\* tpbase.go:112-117: decode the extracted bytes; a decode error is returned
\* with a hex dump of the bytes, a decoded offset ends the loop.
AnalyzeCode ==
    /\ pc = "analyze"
    /\ LET r == Analyze(idx, code) IN
         /\ decodes' = Append(decodes, [analyzer |-> idx, code |-> code,
                                        offset |-> r.offset, err |-> r.err])
         /\ IF r.err # "nil"
              THEN /\ result' = [offset |-> 0, err |-> r.err, dump |-> code]
                   /\ pc' = "done"
                   /\ UNCHANGED tpbaseOffset
              ELSE /\ tpbaseOffset' = r.offset
                   /\ pc' = "validate"
                   /\ UNCHANGED result
    /\ UNCHANGED <<kmem, sideVars, trace, mapVars, resVars, kernelSymbols, idx, code, lookups,
                   functionAddress, codeDump, lkcRet, extractions, firings,
                   lastDump>>

\* Validate without the zero check of tpbase.go:120.
ValidateNoZeroCheck ==
    /\ pc = "validate"
    /\ result' =
         IF NotSane(tpbaseOffset)
           THEN [offset |-> 0, err |-> "not sane", dump |-> Nil]
           ELSE [offset |-> tpbaseOffset, err |-> "nil", dump |-> Nil]
    /\ pc' = "done"
    /\ UNCHANGED <<kmem, sideVars, trace, mapVars, resVars, kernelSymbols, idx, tpbaseOffset,
                   code, lookups, decodes, functionAddress, codeDump, lkcRet,
                   extractions, firings, lastDump>>

\* tpbase.go:120-130: the zero check, the sanity check and the return.
Validate ==
    /\ pc = "validate"
    /\ result' =
         IF tpbaseOffset = 0
           THEN [offset |-> 0, err |-> "no supported symbol found", dump |-> Nil]
         ELSE IF NotSane(tpbaseOffset)
           THEN [offset |-> 0, err |-> "not sane", dump |-> Nil]
         ELSE [offset |-> tpbaseOffset, err |-> "nil", dump |-> Nil]
    /\ pc' = "done"
    /\ UNCHANGED <<kmem, sideVars, trace, mapVars, resVars, kernelSymbols, idx, tpbaseOffset,
                   code, lookups, decodes, functionAddress, codeDump, lkcRet,
                   extractions, firings, lastDump>>

\* loadTPBaseOffset has returned and its locals are gone; the caller may
\* start another attempt.
Finish ==
    /\ pc = "done"
    /\ pc' = "idle"
    /\ kernelSymbols' = {}
    /\ idx' = 1
    /\ tpbaseOffset' = 0
    /\ code' = Nil
    /\ result' = NoResult
    /\ functionAddress' = 0
    /\ codeDump' = Nil
    /\ lkcRet' = NoRet
    /\ lookups' = <<>>
    /\ extractions' = <<>>
    /\ decodes' = <<>>
    /\ firings' = 0
    /\ trace' = <<>>
    /\ UNCHANGED <<kmem, sideVars, mapVars, resVars, lastDump>>

\* One discovery attempt.
Next ==
    \/ StartAttempt
    \/ ProbeFire
    \/ ResolveSymbol
    \/ LoopEnd
    \/ UpdateAddr
    \/ MaximizeMemlock
    \/ NewProgram
    \/ Tracepoint
    \/ LookupCode
    \/ ClearCode
    \/ Deferred
    \/ Extracted
    \/ AnalyzeCode
    \/ Validate

Spec == Init /\ [][Next]_vars

\* Discovery attempts following one another, the kernel's code changing in
\* between.
InitSerial == Init /\ kmem \in [Addresses -> SerialCode]

NextSerial == Next \/ Finish \/ KernelChange

SpecSerial == InitSerial /\ [][NextSerial]_vars

\* One discovery attempt whose caller thread keeps running and whose kernel
\* calls all return.
LiveCode == {ZeroDump, <<MovOp, 0>>, <<MovOp, 3344>>}

InitLive == Init /\ kmem \in [Addresses -> LiveCode]

\* A step of the caller thread inside loadTPBaseOffset.
CallerStep ==
    \/ ResolveSymbol
    \/ LoopEnd
    \/ UpdateAddr
    \/ MaximizeMemlock
    \/ NewProgram
    \/ Tracepoint
    \/ LookupCode
    \/ ClearCode
    \/ Deferred
    \/ Extracted
    \/ AnalyzeCode
    \/ Validate

SpecLive == InitLive /\ [][Next]_vars /\ WF_vars(CallerStep)

----
\* A second thread calling loadKernelCode (tpbase.go:44-93) on the same maps.

InExtraction ==
    pc \in {"writeAddr", "rlimit", "newProgram", "tracepoint", "lookupCode",
            "clearCode", "defers"}

\* Where the first caller is with its own call of loadKernelCode.
MainPhase ==
    IF InExtraction THEN "inside"
    ELSE IF extractions = <<>> THEN "before" ELSE "after"

callerVars == <<pc, orchVars, resVars, functionAddress, codeDump, lkcRet,
                extractions, lastDump, trace>>

\* The second caller back from loadKernelCode with ret (Nil with an error).
PeerReturned(ret) ==
    [peer EXCEPT !.pc = "returned", !.ret = ret, !.ended = MainPhase]

\* The second thread calls loadKernelCode(a).
PeerCall ==
    /\ peer = NoPeer
    /\ \E a \in Addresses :
          peer' = [peer EXCEPT !.pc = "writeAddr", !.addr = a, !.began = MainPhase]
    /\ UNCHANGED <<callerVars, kmem, mapVars, firings, loader, ranges>>

\* PeerUpdateAddr leaving an address already in the slot in place.
PeerUpdateAddrOnce ==
    /\ peer.pc = "writeAddr"
    /\ codedump_addr' = IF codedump_addr = 0 THEN peer.addr ELSE codedump_addr
    /\ peer' = [peer EXCEPT !.pc = "attach"]
    /\ codedump_code' = SysEnterBpf
    /\ firings' = AfterSyscall
    /\ UNCHANGED <<callerVars, kmem, loader, ranges>>

\* tpbase.go:52-56 in the second thread.
PeerUpdateAddr ==
    /\ peer.pc = "writeAddr"
    /\ \/ /\ codedump_addr' = peer.addr
          /\ peer' = [peer EXCEPT !.pc = "attach"]
       \/ /\ peer' = PeerReturned(Nil)
          /\ UNCHANGED codedump_addr
    /\ codedump_code' = SysEnterBpf
    /\ firings' = AfterSyscall
    /\ UNCHANGED <<callerVars, kmem, loader, ranges>>

\* tpbase.go:58-77 in the second thread: the rlimit, the program and the
\* tracepoint link, none of which touches the maps; a failure of any of them
\* returns.
PeerAttach ==
    /\ peer.pc = "attach"
    /\ \/ peer' = [peer EXCEPT !.pc = "lookupCode", !.attached = TRUE]
       \/ peer' = PeerReturned(Nil)
    /\ UNCHANGED <<callerVars, kmem, mapVars, firings, loader, ranges>>

\* tpbase.go:79-83 in the second thread.
PeerLookup ==
    /\ peer.pc = "lookupCode"
    /\ codedump_code' = SysEnterBpf
    /\ firings' = AfterSyscall
    /\ \/ peer' = [peer EXCEPT !.pc = "clearCode", !.codeDump = codedump_code']
       \/ peer' = [peer EXCEPT !.pc = "release"]
    /\ UNCHANGED <<callerVars, kmem, codedump_addr, loader, ranges>>

\* tpbase.go:85-92 in the second thread.
PeerClear ==
    /\ peer.pc = "clearCode"
    /\ firings' = AfterSyscall
    /\ \/ /\ codedump_code' \in ClearedSlots
          /\ peer' = [peer EXCEPT !.pc = "release", !.ret = peer.codeDump]
       \/ /\ codedump_code' = SysEnterBpf
          /\ peer' = [peer EXCEPT !.pc = "release"]
    /\ UNCHANGED <<callerVars, kmem, codedump_addr, loader, ranges>>

\* The second thread's deferred calls (tpbase.go:62, 71, 77), then its return.
PeerRelease ==
    /\ peer.pc = "release"
    /\ peer' = [PeerReturned(peer.ret) EXCEPT !.attached = FALSE]
    /\ UNCHANGED <<callerVars, kmem, mapVars, firings, loader, ranges>>

PeerNext ==
    \/ PeerCall
    \/ PeerUpdateAddr
    \/ PeerAttach
    \/ PeerLookup
    \/ PeerClear
    \/ PeerRelease

\* One discovery attempt and one call of loadKernelCode from another thread,
\* in any interleaving.
SpecConcurrent == InitSerial /\ [][Next \/ PeerNext]_vars

----
\* LoaderInfo.GetSymbolAsRanges (interpreter/loaderinfo.go).

\* A uint64 is NumLimbs limbs below LimbBase, least significant first.
NumLimbs == 4
LimbBase == 65536

\* Limbs of the symbol addresses and sizes tried: the least, one, the most.
LimbValues == {0, 1, LimbBase - 1}

Uint64s == [1 .. NumLimbs -> LimbValues]

\* What a LoaderInfo's ELF reference yields: whether GetELF fails, whether
\* LookupSymbol fails, and the symbol's Address and Size.
Loaders == [elfErr : BOOLEAN, symErr : BOOLEAN, address : Uint64s, size : Uint64s]

\* The carry out of limb i of x + y.
RECURSIVE CarryOut(_, _, _)
CarryOut(x, y, i) ==
    IF i = 0 THEN 0 ELSE (x[i] + y[i] + CarryOut(x, y, i - 1)) \div LimbBase

\* Addition that drops every carry.
AddUint64NoCarry(x, y) ==
    [i \in 1 .. NumLimbs |-> (x[i] + y[i]) % LimbBase]

\* Go's + on uint64: the carry out of the top limb is dropped.
AddUint64(x, y) ==
    [i \in 1 .. NumLimbs |-> (x[i] + y[i] + CarryOut(x, y, i - 1)) % LimbBase]

\* GetSymbolAsRanges(symbol), the whole call.
GetSymbolAsRanges ==
    /\ ranges = NoRanges
    /\ loader \in Loaders
    /\ ranges' =
          IF loader.elfErr
              THEN [ranges |-> <<>>, err |-> "get elf"]
          ELSE IF loader.symErr
              THEN [ranges |-> <<>>, err |-> "symbol not found"]
          ELSE LET start == loader.address
               IN  [ranges |-> << [Start |-> start,
                                   End |-> AddUint64(start, loader.size)] >>,
                    err |-> "nil"]
    /\ UNCHANGED <<pc, kmem, mapVars, orchVars, resVars, functionAddress,
                   codeDump, lkcRet, extractions, firings, lastDump, trace,
                   peer, loader>>

\* A LoaderInfo from NewLoaderInfo, no discovery attempt running.
InitRanges ==
    /\ pc = "idle"
    /\ kernelSymbols = {}
    /\ kmem = [a \in Addresses |-> ZeroDump]
    /\ codedump_addr = 0
    /\ codedump_code = ZeroDump
    /\ idx = 1
    /\ tpbaseOffset = 0
    /\ code = Nil
    /\ result = NoResult
    /\ functionAddress = 0
    /\ codeDump = Nil
    /\ lkcRet = NoRet
    /\ rlimitRaised = FALSE
    /\ progLoaded = FALSE
    /\ probeAttached = FALSE
    /\ defers = <<>>
    /\ lookups = <<>>
    /\ extractions = <<>>
    /\ decodes = <<>>
    /\ firings = 0
    /\ lastDump = NoDump
    /\ trace = <<>>
    /\ peer = NoPeer
    /\ loader \in Loaders
    /\ ranges = NoRanges

SpecRanges == InitRanges /\ [][GetSymbolAsRanges]_vars

----
\* Properties of loadTPBaseOffset.

Min(S) == CHOOSE x \in S : \A y \in S : x <= y

\* The first analyzer, in priority order, whose symbol resolves.
FirstResolving == Min(kernelSymbols)

\* What the first resolving analyzer decodes from the kernel's code.
FirstDecode == Analyze(FirstResolving, kmem[SymAddress(FirstResolving)])

Plausible(v) == 500 <= v /\ v <= 20000

Success(v) == [offset |-> v, err |-> "nil", dump |-> Nil]

\* C1: the analyzers are looked up in priority order, the unresolved ones
\* are skipped without an error and without an extraction, exactly the
\* first resolving analyzer's function is extracted and decoded, and when
\* extraction and decode succeed with an offset O in [500, 20000] the attempt
\* returns O.
C1_FirstResolvingAnalyzerUsed ==
    /\ \A j \in 1 .. Len(lookups) : lookups[j] = j
    /\ \A j \in 1 .. Len(lookups) - 1 : ~LookupSymbol(kernelSymbols, j)
    /\ pc = "loop" => extractions = <<>> /\ decodes = <<>> /\ result = NoResult
    /\ \A k \in 1 .. Len(extractions) :
          /\ kernelSymbols # {}
          /\ extractions[k] = SymAddress(FirstResolving)
          /\ Len(lookups) = FirstResolving
    /\ \A k \in 1 .. Len(decodes) :
          /\ kernelSymbols # {}
          /\ decodes[k].analyzer = FirstResolving
    /\ pc = "done" /\ kernelSymbols # {} => Len(extractions) = 1
    /\ ( /\ pc = "done"
         /\ kernelSymbols # {}
         /\ lkcRet.err = "nil"
         /\ FirstDecode.err = "nil"
         /\ Plausible(FirstDecode.offset) )
       => result = Success(FirstDecode.offset)

\* Only the third-priority symbol is present and its code decodes to 3344.
C1_Witness ==
    /\ pc = "done"
    /\ kernelSymbols = {3}
    /\ lookups = <<1, 2, 3>>
    /\ extractions = <<SymAddress(3)>>
    /\ kmem[SymAddress(3)] = <<MovOp, 3344>>
    /\ result = Success(3344)

\* C2: a returned offset lies in [500, 20000]; a decoded value is accepted
\* exactly when it lies in that range (499 and 20001 rejected, 500 and 20000
\* accepted), and a rejected value ends the attempt with no further analyzer
\* looked up, extracted or decoded.
C2_OffsetBounds ==
    /\ result.err = "nil" => Plausible(result.offset)
    /\ ( pc = "done" /\ decodes # <<>> /\ decodes[1].err = "nil" ) =>
          LET v == decodes[1].offset IN
            /\ Plausible(v) => result = Success(v)
            /\ ~Plausible(v) =>
                  /\ result.err \notin {"nil", "none"}
                  /\ result.offset = 0
                  /\ Len(lookups) = decodes[1].analyzer
                  /\ Len(extractions) = 1
                  /\ Len(decodes) = 1

\* 20001 is rejected although a later analyzer's function exists and holds a
\* plausible offset.
C2_Witness ==
    /\ pc = "done"
    /\ kernelSymbols = {1, 2}
    /\ kmem[SymAddress(1)] = <<MovOp, 20001>>
    /\ kmem[SymAddress(2)] = <<MovOp, 20000>>
    /\ decodes # <<>>
    /\ decodes[1].offset = 20001
    /\ result.err = "not sane"
    /\ lookups = <<1>>

IsError(e) == e \notin {"nil", "none"}

\* C3: when loadKernelCode fails for the first resolving analyzer, the
\* attempt returns that error at once: nothing is decoded and no later
\* analyzer is looked up or extracted.
C3_ExtractionFailureAborts ==
    IsError(lkcRet.err) =>
        /\ pc \in {"defers", "extracted", "done"}
        /\ decodes = <<>>
        /\ Len(extractions) = 1
        /\ Len(lookups) = FirstResolving
        /\ pc = "done" => result = [offset |-> 0, err |-> lkcRet.err, dump |-> Nil]

\* The extraction for analyzer 1 fails while analyzer 2's function exists.
C3_Witness ==
    /\ pc = "done"
    /\ kernelSymbols = {1, 2}
    /\ kmem[SymAddress(2)] = <<MovOp, 3344>>
    /\ lkcRet.err = "load tracepoint"
    /\ result.err = "load tracepoint"
    /\ lookups = <<1>>

\* C4: a decode failure on extracted bytes ends the attempt with the decode
\* error and a dump of exactly the extracted bytes; no later analyzer is
\* looked up, extracted or decoded.
C4_DecodeFailureIsFatal ==
    ( pc = "done" /\ decodes # <<>> /\ decodes[1].err # "nil" ) =>
        /\ result = [offset |-> 0, err |-> decodes[1].err, dump |-> lkcRet.code]
        /\ lkcRet.err = "nil"
        /\ lkcRet.code = kmem[SymAddress(FirstResolving)]
        /\ Len(lookups) = FirstResolving
        /\ Len(extractions) = 1
        /\ Len(decodes) = 1

\* Analyzer 1's code does not match while analyzer 2 would decode 3344.
C4_Witness ==
    /\ pc = "done"
    /\ kernelSymbols = {1, 2}
    /\ kmem[SymAddress(1)] = ZeroDump
    /\ kmem[SymAddress(2)] = <<MovOp, 3344>>
    /\ result = [offset |-> 0, err |-> "decode", dump |-> ZeroDump]
    /\ lookups = <<1>>

\* C5 as claimed: a decoded value outside [500, 20000] fails with the
\* implausible-offset error, and "no supported symbol found" is returned only
\* when no analyzer produced a value.
C5_ImplausibleNeverNotFound ==
    /\ ( pc = "done" /\ decodes # <<>> /\ decodes[1].err = "nil"
         /\ ~Plausible(decodes[1].offset) ) => result.err = "not sane"
    /\ ( pc = "done" /\ result.err = "no supported symbol found" ) =>
          \A k \in 1 .. Len(decodes) : decodes[k].err # "nil"

\* C6: when no analyzer's symbol resolves the attempt fails with "no
\* supported symbol found" after one lookup per analyzer, and nothing of an
\* extraction happens: no map write, no limit raise, no program load, no
\* probe attach, no decode.
C6_NothingResolves ==
    ( pc # "idle" /\ kernelSymbols = {} ) =>
        /\ extractions = <<>>
        /\ decodes = <<>>
        /\ codedump_addr = 0
        /\ functionAddress = 0
        /\ lkcRet = NoRet
        /\ ~rlimitRaised /\ ~progLoaded /\ ~probeAttached /\ defers = <<>>
        /\ pc \in {"loop", "validate", "done"}
        /\ pc \in {"validate", "done"} => lookups = [j \in 1 .. NumAnalyzers |-> j]
        /\ pc = "done" =>
              result = [offset |-> 0, err |-> "no supported symbol found",
                        dump |-> Nil]

\* The attempt has ended with an empty symbol table.
C6_Witness ==
    /\ pc = "done"
    /\ kernelSymbols = {}
    /\ Len(lookups) = NumAnalyzers
    /\ result.err = "no supported symbol found"

----
\* Properties of loadKernelCode.

\* C7: the output slot is read only after the probe has fired at least once
\* since this call wrote the target address, what is read and returned are
\* the bytes at the requested address, and further firings between the
\* attach and the read change nothing of it.
C7_ReadAfterFiring ==
    /\ codeDump # Nil => firings >= 1 /\ codeDump = kmem[functionAddress]
    /\ lkcRet.err = "nil" =>
          /\ firings >= 1
          /\ lkcRet.code = kmem[functionAddress]
          /\ codedump_addr = functionAddress

\* A call has returned its bytes after the probe fired more than once, an
\* earlier call having returned other bytes.
C7_Witness ==
    /\ pc = "extracted"
    /\ lkcRet.err = "nil"
    /\ firings >= 2
    /\ lastDump.addr # 0
    /\ lastDump.code # lkcRet.code

\* C8: whenever loadKernelCode is not running, whatever exit it took, no
\* probe is attached, no program is loaded, the limit is not raised and no
\* deferred call is pending.
C8_ResourcesReleased ==
    ~InExtraction =>
        ~probeAttached /\ ~progLoaded /\ ~rlimitRaised /\ defers = <<>>

\* The call has returned through the failure of the clearing write, after
\* the limit, the program and the probe were all acquired.
C8_Witness ==
    /\ pc = "extracted"
    /\ lkcRet.err = "clear codedump_code"
    /\ ~probeAttached /\ ~progLoaded /\ ~rlimitRaised

\* C9 as claimed: when a successful extraction call has returned, the output
\* slot holds zero and none of the extracted code. It is stated here for the
\* slot's leading word alone, the four bytes that the clearing write takes
\* from value0 itself: the claim implies it, whatever the write leaves in the
\* bytes behind them.
C9_SlotZeroAfterSuccess ==
    ( pc = "extracted" /\ lkcRet.err = "nil" ) => codedump_code[1] = 0

\* C10: an extraction call returns the bytes that are at its own address
\* when it runs, whatever an earlier call left in the output slot; a call
\* for the address of the previous successful call, the kernel's code there
\* unchanged, returns the same bytes again.
C10_SerialExtractions ==
    ( pc = "extracted" /\ lkcRet.err = "nil" ) =>
        /\ lkcRet.code = kmem[functionAddress]
        /\ lastDump.addr = functionAddress => lkcRet.code = lastDump.code

\* A second call for the same address and unchanged code has returned.
C10_Witness ==
    /\ pc = "extracted"
    /\ lkcRet.err = "nil"
    /\ lastDump.addr = functionAddress
    /\ lkcRet.code = lastDump.code

\* The place of event e in the call's trace, 0 when it has not happened.
Pos(e) ==
    IF \E i \in 1 .. Len(trace) : trace[i] = e
        THEN Min({i \in 1 .. Len(trace) : trace[i] = e})
        ELSE 0

Has(e) == Pos(e) # 0

\* Event b has not happened, or a happened before it.
Before(a, b) == Has(b) => Has(a) /\ Pos(a) < Pos(b)

FullTrace == <<"write", "raise", "load", "attach", "read">>

\* C11: in one extraction call the address write precedes the program load
\* and the probe attach, and once the probe was attached the detach and the
\* unload come only after the read of the output slot.
C11_StepOrder ==
    /\ Before("write", "raise")
    /\ Before("write", "load")
    /\ Before("write", "attach")
    /\ Before("load", "attach")
    /\ Before("attach", "read")
    /\ Has("attach") =>
          /\ Before("read", "perfEvent.Close")
          /\ Before("read", "prog.Close")
    /\ Has("read") => probeAttached \/ Has("perfEvent.Close")
    /\ pc = "clearCode" => trace = FullTrace /\ probeAttached /\ progLoaded

\* A successful call has gone through all its steps.
C11_Witness ==
    /\ pc = "extracted"
    /\ lkcRet.err = "nil"
    /\ trace = FullTrace \o <<"clear", "perfEvent.Close", "prog.Close",
                              "restoreRlimit">>

\* C12: loadKernelCode returns either a whole dump and no error or an error
\* and a nil slice, whichever step failed; a failing loadTPBaseOffset returns
\* offset 0 with its error.
C12_NoPartialResults ==
    /\ lkcRet.err = "nil" =>
          /\ Len(lkcRet.code) = Len(ZeroDump)
          /\ lkcRet.code = codeDump
    /\ lkcRet.err # "nil" => lkcRet.code = Nil
    /\ result.err # "nil" => result.offset = 0
    /\ pc = "done" => result.err # "none"
    /\ pc = "extracted" => lkcRet.err # "none"

\* The clearing write failed after the buffer had been read.
C12_Witness ==
    /\ pc = "done"
    /\ codeDump # Nil
    /\ lkcRet = [code |-> Nil, err |-> "clear codedump_code"]
    /\ result = [offset |-> 0, err |-> "clear codedump_code", dump |-> Nil]

\* The releases of the call, in the order they ran.
Releases == SelectSeq(trace, LAMBDA e :
                e \in {"perfEvent.Close", "prog.Close", "restoreRlimit"})

\* The release that undoes each acquisition of the call, in the order the
\* acquisitions ran.
Acquired == SelectSeq(trace, LAMBDA e : e \in {"raise", "load", "attach"})

Undo(e) ==
    CASE e = "raise" -> "restoreRlimit"
      [] e = "load" -> "prog.Close"
      [] e = "attach" -> "perfEvent.Close"

Reverse(q) == [i \in 1 .. Len(q) |-> q[Len(q) + 1 - i]]

\* C17: the releases run in the reverse order of the acquisitions: detach,
\* then unload, then restore; a probe is attached only while its program is
\* loaded, a program loaded only while the limit is raised.
C17_ReverseRelease ==
    /\ probeAttached => progLoaded
    /\ progLoaded => rlimitRaised
    /\ Has("perfEvent.Close") => Before("perfEvent.Close", "prog.Close")
    /\ Has("prog.Close") => Before("prog.Close", "restoreRlimit")
    /\ \A i \in 1 .. Len(Releases) :
          Releases[i] = Undo(Acquired[Len(Acquired) + 1 - i])
    /\ pc = "extracted" =>
          Releases = Reverse([i \in 1 .. Len(Acquired) |-> Undo(Acquired[i])])

\* The read of the output slot failed and all three releases have run.
C17_Witness ==
    /\ pc = "extracted"
    /\ lkcRet.err = "get codedump"
    /\ trace = FullTrace \o <<"perfEvent.Close", "prog.Close", "restoreRlimit">>

\* C13 as claimed: when loadKernelCode has returned, by whatever exit, the
\* input slot does not hold the address this call wrote, and the output slot
\* does not hold the code the probe copied during this call (told apart from
\* what the slot could hold otherwise).
C13_SlotsScopedToCall ==
    pc = "extracted" =>
        /\ codedump_addr # functionAddress
        /\ kmem[functionAddress] \notin StaleSlots \cup ClearedSlots =>
              codedump_code # kmem[functionAddress]

\* C13 as amended: the program and the probe are gone when loadKernelCode
\* has returned, the map slots are not emptied: the input slot holds this
\* call's address after every exit that follows the address write, and the
\* output slot holds the copied code after a failed read of it.
C13_SlotsOutliveCall ==
    pc = "extracted" =>
        /\ ~probeAttached /\ ~progLoaded
        /\ Has("write") <=> lkcRet.err # "write codedump_addr"
        /\ Has("write") => codedump_addr = functionAddress
        /\ lkcRet.err = "get codedump" => codedump_code = kmem[functionAddress]

\* The call has returned through the limit-raise failure; the address it
\* wrote is still in the input slot.
C13_Witness ==
    /\ pc = "extracted"
    /\ lkcRet.err = "adjust rlimit"
    /\ codedump_addr = functionAddress
    /\ functionAddress # 0

\* C15: one attempt calls loadKernelCode at most once and Analyze at most
\* once, and looks up no analyzer behind the first one that resolves,
\* whether the extraction, the decode or the validation then succeeds or
\* fails.
C15_NoRetries ==
    /\ Len(extractions) <= 1
    /\ Len(decodes) <= 1
    /\ Len(decodes) <= Len(extractions)
    /\ Cardinality({lookups[j] : j \in 1 .. Len(lookups)}) = Len(lookups)
    /\ extractions # <<>> =>
          /\ idx = FirstResolving
          /\ lookups = [j \in 1 .. FirstResolving |-> j]
    /\ ( pc = "done" /\ kernelSymbols # {} ) =>
          /\ Len(extractions) = 1
          /\ Len(lookups) = FirstResolving
          /\ IsError(lkcRet.err) <=> decodes = <<>>

\* Every analyzer's function exists; the extraction for the first one failed
\* at the read of the output slot, and the attempt is over.
C15_Witness ==
    /\ pc = "done"
    /\ kernelSymbols = Analyzers
    /\ lkcRet.err = "get codedump"
    /\ result.err = "get codedump"
    /\ extractions = <<SymAddress(1)>>
    /\ lookups = <<1>>

\* The place of a position of the caller in the order of the attempt.
Rank(p) ==
    CASE p = "idle" -> 0
      [] p = "loop" -> 1
      [] p = "writeAddr" -> 2
      [] p = "rlimit" -> 3
      [] p = "newProgram" -> 4
      [] p = "tracepoint" -> 5
      [] p = "lookupCode" -> 6
      [] p = "clearCode" -> 7
      [] p = "defers" -> 8
      [] p = "extracted" -> 9
      [] p = "analyze" -> 10
      [] p = "validate" -> 11
      [] p = "done" -> 12

\* A step goes forward: to a later position, to the next analyzer, to the
\* next deferred call, or it is the kernel's and leaves the caller alone.
Forward ==
    IF pc' # pc
        THEN Rank(pc') > Rank(pc)
        ELSE \/ pc = "loop" /\ idx' = idx + 1 /\ Len(lookups') = Len(lookups) + 1
             \/ pc = "defers" /\ Len(defers') = Len(defers) - 1
             \/ UNCHANGED <<orchVars, resVars, functionAddress, codeDump,
                            lkcRet, extractions, trace>>

\* The attempt is over with exactly one outcome: an offset and no error, or
\* an error and offset 0.
Terminal ==
    \/ result.err = "nil" /\ Plausible(result.offset)
    \/ IsError(result.err) /\ result.offset = 0

\* C16: every kernel call returning, an attempt that has begun ends in one
\* terminal state, success with an offset or failure with an error, after at
\* most one lookup per analyzer and without ever going back to an earlier
\* step.
C16_Terminates ==
    /\ [][Forward]_vars
    /\ [](pc = "done" => Terminal)
    /\ [](pc # "done" => result = NoResult)
    /\ [](Len(lookups) <= NumAnalyzers)
    /\ (pc = "loop") ~> (pc = "done")

\* The last analyzer's function is the only one present and its code does
\* not decode: the attempt has ended after one lookup per analyzer.
C16_Witness ==
    /\ pc = "done"
    /\ Len(lookups) = NumAnalyzers
    /\ decodes # <<>>
    /\ result.err = "decode"

----
\* Properties of LoaderInfo.GetSymbolAsRanges.

\* The borrow out of limb i of x - y.
RECURSIVE BorrowOut(_, _, _)
BorrowOut(x, y, i) ==
    IF i = 0 THEN 0
    ELSE IF x[i] - y[i] - BorrowOut(x, y, i - 1) < 0 THEN 1 ELSE 0

\* x - y modulo 2^64.
SubUint64(x, y) ==
    [i \in 1 .. NumLimbs |->
        (x[i] - y[i] - BorrowOut(x, y, i - 1) + LimbBase) % LimbBase]

\* A uint64 whose value fits the two low limbs with room to add another.
Small(x) == x[2] <= 1 /\ \A i \in 3 .. NumLimbs : x[i] = 0

\* The value of a small uint64.
Value(x) == x[1] + LimbBase * x[2]

\* The uint64 of a number below LimbBase.
Low(n) == [i \in 1 .. NumLimbs |-> IF i = 1 THEN n ELSE 0]

MaxUint64 == [i \in 1 .. NumLimbs |-> LimbBase - 1]

\* C18: for a symbol found with address a and size s the call returns no
\* error and exactly one range with Start = a and End = a + s modulo 2^64;
\* when the ELF cannot be obtained or the symbol is not found it returns an
\* error and no ranges.
C18_SymbolRange ==
    ranges # NoRanges =>
        IF loader.elfErr \/ loader.symErr
            THEN IsError(ranges.err) /\ ranges.ranges = <<>>
            ELSE /\ ranges.err = "nil"
                 /\ Len(ranges.ranges) = 1
                 /\ LET r == ranges.ranges[1]
                    IN  /\ r.Start = loader.address
                        /\ r.End \in [1 .. NumLimbs -> 0 .. LimbBase - 1]
                        /\ SubUint64(r.End, r.Start) = loader.size
                        /\ ( Small(loader.address) /\ Small(loader.size) ) =>
                              /\ \A i \in 3 .. NumLimbs : r.End[i] = 0
                              /\ r.End[1] + LimbBase * r.End[2]
                                    = Value(loader.address) + Value(loader.size)
                        /\ ( loader.address = MaxUint64 /\ loader.size = Low(1) ) =>
                              r.End = Low(0)

\* The symbol ends at the top of the address space: the sum carries through
\* every limb and End wraps to 0.
C18_Witness ==
    /\ ranges.err = "nil"
    /\ loader.address = MaxUint64
    /\ loader.size = Low(1)
    /\ Len(ranges.ranges) = 1
    /\ ranges.ranges[1].End = Low(0)

----
\* Properties of two callers of loadKernelCode.

\* The two calls did not overlap: the second thread's call was over before
\* the first caller's began, or began after it was over.
Serialized ==
    \/ peer.began = "never"
    \/ peer.began = "after"
    \/ peer.began = "before" /\ peer.ended = "before"

\* C14: when the two calls are serialized, each call that returns bytes
\* returns the bytes of its own address. (That overlapping calls can return
\* the other caller's bytes is the reachability of C14_Witness.)
C14_SerializedOwnBytes ==
    Serialized =>
        /\ ( ~InExtraction /\ lkcRet.err = "nil" ) =>
              lkcRet.code = kmem[functionAddress]
        /\ ( peer.pc = "returned" /\ peer.ret # Nil ) =>
              peer.ret = kmem[peer.addr]

\* The second thread wrote its address while the first caller was inside its
\* call: the first caller has returned, without error, the bytes of the
\* second thread's address and not those of its own.
C14_Witness ==
    /\ pc = "done"
    /\ lkcRet.err = "nil"
    /\ peer.began = "inside"
    /\ peer.addr # functionAddress
    /\ kmem[peer.addr] # kmem[functionAddress]
    /\ lkcRet.code = kmem[peer.addr]
====
